---- MODULE Spec2Model ----
(***************************************************************************)
(* MCPClient (src/mcplite.js): the JSON-RPC correlation table, the inbound *)
(* dispatch, the connect/initialize handshake and the event emitter, as a  *)
(* state machine of the single-threaded JavaScript event loop.             *)
(*                                                                         *)
(* One action is one task of the event loop (an EventSource event, a timer *)
(* firing, a fetch settling, one promise reaction) or one synchronous call *)
(* of the embedding application.  The operators take the client state as a *)
(* record and return the state after the code ran.                         *)
(***************************************************************************)
EXTENDS Integers, Sequences, FiniteSets, Bags, TLC

VARIABLES
    eventSource,        \* this.eventSource: 0 is null, else the EventSource object
    messageHandlers,    \* this.messageHandlers: request id -> response closure
    nextRequestId,      \* this.nextRequestId
    connected,          \* this.connected
    eventListeners,     \* this.eventListeners: event name -> callbacks, in order
    serverCapabilities, \* this.serverCapabilities
    messageEndpoint,    \* this.messageEndpoint: 0 is undefined
    sources,            \* the EventSource objects that are open (not closed)
    srcCount,           \* EventSource objects constructed so far
    connectPromise,     \* per connect() call: the state of the promise it returned
    timers,             \* request ids whose setTimeout is armed
    requests,           \* per sendRequest call: its promise, its awaiter, its settle calls
    microtasks,         \* the promise reactions queued, first in first out
    outbox,             \* every message handed to fetch, in order
    inflight,           \* outbox positions whose fetch has not settled
    events,             \* the emit() calls so far, each with the callbacks it invoked (a bag)
    threw,              \* the exception the last entry into the client ended with
    trace,              \* how each envelope of the last 'message' event was routed
    lastMessage,        \* the envelopes the last 'message' event carried
    inbound,            \* 'message' events delivered to the dispatch so far
    handshakeFailed     \* a transport error hit the handshake of the latest connect()

vars == <<eventSource, messageHandlers, nextRequestId, connected, eventListeners,
          serverCapabilities, messageEndpoint, sources, srcCount, connectPromise,
          timers, requests, microtasks, outbox, inflight, events, threw,
          trace, lastMessage, inbound, handshakeFailed>>

(***************************************************************************)
(* Bounds of the model.                                                    *)
(***************************************************************************)
MaxRequests == 2
MaxConnects == 2
MaxInbound == 1
MaxErrors == 1
MaxBatch == 2
MaxListeners == 1
MaxPending == 2
MaxClock == 2
MaxCalls == 2
MaxCallbacks == 2
MaxRegistrations == 3
MaxEmits == 2

(***************************************************************************)
(* Program constants.                                                      *)
(***************************************************************************)
FirstRequestId == 1
MethodNotFound == -32601

(***************************************************************************)
(* JavaScript values: a kind and a number (the value of a number, the      *)
(* identity of an object, the digits of a string).                         *)
(***************************************************************************)
Undef == [k |-> "undefined", n |-> 0]
Null == [k |-> "null", n |-> 0]
Num(i) == [k |-> "number", n |-> i]
Str(i) == [k |-> "string", n |-> i]
Obj(i) == [k |-> "object", n |-> i]

\* ToBoolean: undefined, null and 0 are falsy; objects and the non-empty
\* strings Str(i) are truthy.
Truthy(v) == CASE v.k = "undefined" -> FALSE
               [] v.k = "null" -> FALSE
               [] v.k = "number" -> v.n # 0
               [] OTHER -> TRUE

\* The payloads the client itself builds.
EmptyObject == Obj(0)
EmptyRoots == Obj(1)
ServerResult == Obj(2)
SomeParams == Obj(3)
AddArgs == Obj(4)

\* The params callTool builds (lines 129-139): name, arguments and, with
\* progress, _meta.progressToken = Date.now().toString().  progressToken is
\* Undef when the params have no _meta.
ToolParams(name, args, withProgress, now) ==
    [k |-> "object", name |-> name, arguments |-> args,
     progressToken |-> IF withProgress THEN Str(now) ELSE Undef]

\* The Error objects the client rejects with: the timeout (line 161), the
\* failed send (lines 204, 210), and "Error <code>: <message>" built from a
\* response's error member (line 168), which carries that member's code.
TimeoutError == [k |-> "timeout", n |-> 0]
SendError == [k |-> "http", n |-> 0]
ProtocolError(e) == [k |-> "rpcerror", n |-> e.n]
\* What the two transport failures pass to emit('error'): the exception of
\* new EventSource (line 74), the error event of an EventSource (line 69).
ConstructorError == [k |-> "exception", n |-> 0]
ErrorEventOf(src) == [k |-> "errorevent", n |-> src]

\* result.capabilities: a property of an object; undefined on a primitive.
Capabilities(v) == IF v.k = "object" THEN Obj(v.n) ELSE Undef

(***************************************************************************)
(* A JSON-RPC envelope after JSON.parse: shape "object" with its fields    *)
(* (Undef and "" for an absent field), shape "null" for JSON null, shape   *)
(* "primitive" for a number or a string (every property of it undefined).  *)
(***************************************************************************)
Envelope(i, m, r, e, p) ==
    [shape |-> "object", id |-> i, method |-> m, result |-> r, error |-> e, params |-> p]
NullEnvelope ==
    [shape |-> "null", id |-> Undef, method |-> "", result |-> Undef, error |-> Undef,
     params |-> Undef]
PrimitiveEnvelope ==
    [shape |-> "primitive", id |-> Undef, method |-> "", result |-> Undef,
     error |-> Undef, params |-> Undef]

TheState ==
    [eventSource |-> eventSource, messageHandlers |-> messageHandlers,
     nextRequestId |-> nextRequestId, connected |-> connected,
     eventListeners |-> eventListeners, serverCapabilities |-> serverCapabilities,
     messageEndpoint |-> messageEndpoint, sources |-> sources, srcCount |-> srcCount,
     connectPromise |-> connectPromise, timers |-> timers, requests |-> requests,
     microtasks |-> microtasks, outbox |-> outbox, inflight |-> inflight,
     events |-> events, threw |-> threw, trace |-> trace,
     lastMessage |-> lastMessage, inbound |-> inbound,
     handshakeFailed |-> handshakeFailed]

Becomes(s) ==
    /\ eventSource' = s.eventSource
    /\ messageHandlers' = s.messageHandlers
    /\ nextRequestId' = s.nextRequestId
    /\ connected' = s.connected
    /\ eventListeners' = s.eventListeners
    /\ serverCapabilities' = s.serverCapabilities
    /\ messageEndpoint' = s.messageEndpoint
    /\ sources' = s.sources
    /\ srcCount' = s.srcCount
    /\ connectPromise' = s.connectPromise
    /\ timers' = s.timers
    /\ requests' = s.requests
    /\ microtasks' = s.microtasks
    /\ outbox' = s.outbox
    /\ inflight' = s.inflight
    /\ events' = s.events
    /\ threw' = s.threw
    /\ trace' = s.trace
    /\ lastMessage' = s.lastMessage
    /\ inbound' = s.inbound
    /\ handshakeFailed' = s.handshakeFailed

NoMap == [x \in {} |-> 0]

Holds(s) ==
    /\ eventSource = s.eventSource
    /\ messageHandlers = s.messageHandlers
    /\ nextRequestId = s.nextRequestId
    /\ connected = s.connected
    /\ eventListeners = s.eventListeners
    /\ serverCapabilities = s.serverCapabilities
    /\ messageEndpoint = s.messageEndpoint
    /\ sources = s.sources
    /\ srcCount = s.srcCount
    /\ connectPromise = s.connectPromise
    /\ timers = s.timers
    /\ requests = s.requests
    /\ microtasks = s.microtasks
    /\ outbox = s.outbox
    /\ inflight = s.inflight
    /\ events = s.events
    /\ threw = s.threw
    /\ trace = s.trace
    /\ lastMessage = s.lastMessage
    /\ inbound = s.inbound
    /\ handshakeFailed = s.handshakeFailed

\* The client after its constructor (lines 2-17).
Constructed ==
    [eventSource |-> 0, messageHandlers |-> NoMap, nextRequestId |-> FirstRequestId,
     connected |-> FALSE, eventListeners |-> NoMap, serverCapabilities |-> Null,
     messageEndpoint |-> 0, sources |-> {}, srcCount |-> 0, connectPromise |-> NoMap,
     timers |-> {}, requests |-> NoMap, microtasks |-> <<>>, outbox |-> <<>>,
     inflight |-> {}, events |-> EmptyBag, threw |-> "none", trace |-> <<>>,
     lastMessage |-> <<>>, inbound |-> 0, handshakeFailed |-> FALSE]

Init == Holds(Constructed)

(***************************************************************************)
(* Event emitter.                                                          *)
(***************************************************************************)
EventNames == {"connect", "disconnect", "error", "resourceListChanged",
               "resourceUpdated", "toolListChanged", "promptListChanged",
               "progress", "message", "samplingRequest", "rootsListRequest"}

\* on(event, callback): the callback goes to the end of the event's list.
On(s, event, callback) ==
    LET old == IF event \in DOMAIN s.eventListeners THEN s.eventListeners[event] ELSE <<>>
    IN [s EXCEPT !.eventListeners =
            [e \in DOMAIN s.eventListeners \cup {event} |->
                IF e = event THEN Append(old, callback) ELSE s.eventListeners[e]]]

\* emit invoking the callbacks last registered first.
Invoked_NewestFirst(listeners, event) ==
    IF event \notin DOMAIN listeners THEN <<>>
    ELSE LET l == listeners[event]
         IN [i \in 1..Len(l) |-> l[Len(l) + 1 - i]]

\* The callbacks one emit(event) invokes, in the order it invokes them.
Invoked(listeners, event) ==
    IF event \notin DOMAIN listeners THEN <<>> ELSE listeners[event]

\* emit(event, data); the call is logged with the callbacks it ran.
Emit(s, event, data) ==
    [s EXCEPT !.events = @ (+) SetToBag({[event |-> event, data |-> data,
                                          called |-> Invoked(s.eventListeners, event)]})]

(***************************************************************************)
(* Promises of sendRequest and of connect.                                 *)
(***************************************************************************)
\* resolve()/reject() of connect()'s promise: only the first call settles it.
SettleConnect(s, src, outcome) ==
    IF s.connectPromise[src] = "pending"
    THEN [s EXCEPT !.connectPromise[src] = outcome]
    ELSE s

\* resolve(value)/reject(value) of the promise sendRequest returned for
\* request req, called because of `cause`.  Every call is logged; only the
\* first settles the promise and queues the reaction of whoever awaits it.
Settle(s, req, outcome, value, cause) ==
    LET logged == [s EXCEPT !.requests[req].settles = Append(@, cause)]
    IN IF s.requests[req].promise = "pending"
       THEN [logged EXCEPT !.requests[req].promise = outcome,
                           !.requests[req].value = value,
                           !.microtasks = Append(@, [kind |-> "await", req |-> req])]
       ELSE logged

(***************************************************************************)
(* Outbound.                                                               *)
(***************************************************************************)
\* sendMessage(message): the message is handed to fetch, which settles
\* later.  onReject is the request whose .catch (line 174) handles a failed
\* send, 0 when the caller does not look at the returned promise.
SendMessage(s, message, onReject) ==
    [s EXCEPT !.outbox = Append(@, [msg |-> message, onReject |-> onReject]),
              !.inflight = @ \cup {Len(s.outbox) + 1}]

\* sendNotification(notification): no id, params default to {}.
SendNotification(s, method) ==
    SendMessage(s, Envelope(Undef, method, Undef, Undef, EmptyObject), 0)

\* messageHandlers.set / messageHandlers.delete
MapSet(map, key, value) ==
    [x \in DOMAIN map \cup {key} |-> IF x = key THEN value ELSE map[x]]
MapDelete(map, key) ==
    [x \in DOMAIN map \ {key} |-> map[x]]

\* sendRequest with the id read but not incremented.
SendRequest_NoIncrement(s, method, params, owner, src) ==
    LET id == s.nextRequestId
        registered ==
            [s EXCEPT !.timers = @ \cup {id},
                      !.messageHandlers = MapSet(@, id, [req |-> id]),
                      !.requests = MapSet(@, id,
                          [method |-> method, owner |-> owner, src |-> src,
                           promise |-> "pending", value |-> Undef, settles |-> <<>>,
                           call |-> "pending", callValue |-> Undef])]
    IN SendMessage(registered, Envelope(Num(id), method, Undef, Undef, params), id)

\* sendRequest(request): takes the next id, arms the timeout, registers the
\* response closure of this request, and hands the request to sendMessage.
\* owner is the async function awaiting the promise, src the connect() call
\* whose handshake it belongs to (0 for none).
SendRequest(s, method, params, owner, src) ==
    LET id == s.nextRequestId
        registered ==
            [s EXCEPT !.nextRequestId = id + 1,
                      !.timers = @ \cup {id},
                      !.messageHandlers = MapSet(@, id, [req |-> id]),
                      !.requests = MapSet(@, id,
                          [method |-> method, owner |-> owner, src |-> src,
                           promise |-> "pending", value |-> Undef, settles |-> <<>>,
                           call |-> "pending", callValue |-> Undef])]
    IN SendMessage(registered, Envelope(Num(id), method, Undef, Undef, params), id)

\* OnTimeout without messageHandlers.delete(id).
OnTimeout_KeepsHandler(s, id) ==
    Settle([s EXCEPT !.timers = @ \ {id}],
           id, "rejected", TimeoutError, [by |-> "timeout", key |-> Num(id)])

\* The setTimeout callback of request id (lines 159-162).
OnTimeout(s, id) ==
    Settle([s EXCEPT !.timers = @ \ {id},
                     !.messageHandlers = MapDelete(@, id)],
           id, "rejected", TimeoutError, [by |-> "timeout", key |-> Num(id)])

\* The .catch of a failed send without clearTimeout(timeoutId).
OnSendRejected_KeepsTimer(s, id) ==
    Settle([s EXCEPT !.messageHandlers = MapDelete(@, id)],
           id, "rejected", SendError, [by |-> "send", key |-> Num(id)])

\* The .catch of a failed send of request id (lines 174-178).
OnSendRejected(s, id) ==
    Settle([s EXCEPT !.timers = @ \ {id},
                     !.messageHandlers = MapDelete(@, id)],
           id, "rejected", SendError, [by |-> "send", key |-> Num(id)])

\* RunHandler treating an error response as fatal to the session.
RunHandler_ErrorIsFatal(s, handler, response) ==
    LET cleared == [s EXCEPT !.timers = @ \ {handler.req}]
        cause == [by |-> "response", key |-> response.id]
    IN IF Truthy(response.error)
       THEN Settle(Emit([cleared EXCEPT !.connected = FALSE],
                        "error", ProtocolError(response.error)),
                   handler.req, "rejected", ProtocolError(response.error), cause)
       ELSE Settle(cleared, handler.req, "resolved", response.result, cause)

\* The response closure registered by sendRequest (lines 164-172), called
\* with the inbound response: clears its timer and settles its promise.
RunHandler(s, handler, response) ==
    LET cleared == [s EXCEPT !.timers = @ \ {handler.req}]
        cause == [by |-> "response", key |-> response.id]
    IN IF Truthy(response.error)
       THEN Settle(cleared, handler.req, "rejected", ProtocolError(response.error), cause)
       ELSE Settle(cleared, handler.req, "resolved", response.result, cause)

(***************************************************************************)
(* Inbound dispatch.                                                       *)
(***************************************************************************)
\* A TypeError inside handleIncomingMessage: it unwinds to the catch of the
\* 'message' listener (lines 62-64); what was done before it stays done.
Throw(s) == [s EXCEPT !.threw = "TypeError", !.trace = Append(@, "threw")]

Routed(s, how) == [s EXCEPT !.trace = Append(@, how)]

\* Reading a property of notification.params throws when params is
\* undefined or null.
ParamsReadable(n) == n.params.k \notin {"undefined", "null"}

\* handleNotification(notification) (lines 249-286)
HandleNotification(s, n) ==
    CASE n.method = "notifications/resources/list_changed" ->
            Routed(Emit(s, "resourceListChanged", Undef), "notification")
      [] n.method = "notifications/resources/updated" ->
            IF ParamsReadable(n)
            THEN Routed(Emit(s, "resourceUpdated", n.params), "notification")
            ELSE Throw(s)
      [] n.method = "notifications/tools/list_changed" ->
            Routed(Emit(s, "toolListChanged", Undef), "notification")
      [] n.method = "notifications/prompts/list_changed" ->
            Routed(Emit(s, "promptListChanged", Undef), "notification")
      [] n.method = "notifications/progress" ->
            IF ParamsReadable(n)
            THEN Routed(Emit(s, "progress", n.params), "notification")
            ELSE Throw(s)
      [] n.method = "notifications/message" ->
            IF ParamsReadable(n)
            THEN Routed(Emit(s, "message", n.params), "notification")
            ELSE Throw(s)
      [] OTHER -> Routed(s, "notification")

\* handleServerRequest(request) (lines 288-323); the reply's promise is
\* dropped.
HandleServerRequest(s, request) ==
    CASE request.method = "ping" ->
            Routed(SendMessage(s, Envelope(request.id, "", EmptyObject, Undef, Undef), 0),
                   "request")
      [] request.method = "sampling/createMessage" ->
            Routed(Emit(s, "samplingRequest", request.id), "request")
      [] request.method = "roots/list" ->
            Routed(SendMessage(Emit(s, "rootsListRequest", request.id),
                               Envelope(request.id, "", EmptyRoots, Undef, Undef), 0),
                   "request")
      [] OTHER ->
            Routed(SendMessage(s, Envelope(request.id, "", Undef, Obj(MethodNotFound),
                                           Undef), 0),
                   "request")

\* HasHandler with the id compared loosely ("1" == 1).
HasHandler_LooseEquality(s, id) ==
    id.k \in {"number", "string"} /\ id.n \in DOMAIN s.messageHandlers

\* messageHandlers.get(message.id): keys are the numbers sendRequest took;
\* a string id equals no key.
HasHandler(s, id) == id.k = "number" /\ id.n \in DOMAIN s.messageHandlers

\* HandleResponse without messageHandlers.delete(message.id).
HandleResponse_KeepsEntry(s, message) ==
    IF HasHandler(s, message.id)
    THEN Routed(RunHandler(s, s.messageHandlers[message.id.n], message), "response")
    ELSE Routed(s, "unknown")

\* The response branch of handleIncomingMessage (lines 227-238).
HandleResponse(s, message) ==
    IF HasHandler(s, message.id)
    THEN LET ran == RunHandler(s, s.messageHandlers[message.id.n], message)
         IN Routed([ran EXCEPT !.messageHandlers = MapDelete(@, message.id.n)],
                   "response")
    ELSE Routed(s, "unknown")

\* The tests of handleIncomingMessage on the fields of a message.
IsNotification(m) == m.method # "" /\ ~Truthy(m.id)
IsResponse(m) == Truthy(m.id) /\ (Truthy(m.result) \/ Truthy(m.error))
IsServerRequest(m) == m.method # "" /\ Truthy(m.id)

\* handleIncomingMessage(message) for one envelope (lines 221-246); reading
\* message.method of null throws.
HandleEnvelope(s, m) ==
    IF m.shape = "null" THEN Throw(s)
    ELSE IF IsNotification(m) THEN HandleNotification(s, m)
    ELSE IF IsResponse(m) THEN HandleResponse(s, m)
    ELSE IF IsServerRequest(m) THEN HandleServerRequest(s, m)
    ELSE Routed(s, "unhandled")

\* message.forEach(msg => this.handleIncomingMessage(msg)) (lines 215-219),
\* from element i on: an exception leaves forEach.
RECURSIVE HandleBatchFrom(_, _, _)
HandleBatchFrom(s, batch, i) ==
    IF i > Len(batch) THEN s
    ELSE LET next == HandleEnvelope(s, batch[i])
         IN IF next.threw # "none" THEN next ELSE HandleBatchFrom(next, batch, i + 1)

\* The 'message' listener (lines 58-65) on a parsed message: an array is a
\* batch (a sequence of envelopes), anything else one envelope.
OnMessage(s, batch) ==
    HandleBatchFrom([s EXCEPT !.threw = "none", !.trace = <<>>, !.lastMessage = batch],
                    batch, 1)

(***************************************************************************)
(* Session: connect, the handshake, disconnect, the tool calls.            *)
(***************************************************************************)
\* connect() (lines 37-78) when new EventSource succeeds: the object is
\* stored and its three listeners are attached; the promise is pending.
Connect(s) ==
    LET src == s.srcCount + 1
    IN [s EXCEPT !.srcCount = src,
                 !.eventSource = src,
                 !.sources = @ \cup {src},
                 !.connectPromise = MapSet(@, src, "pending"),
                 !.handshakeFailed = FALSE]

\* connect() when new EventSource throws: the catch of lines 72-76.
ConnectThrows(s) ==
    LET src == s.srcCount + 1
        called == [s EXCEPT !.srcCount = src,
                            !.connectPromise = MapSet(@, src, "pending"),
                            !.handshakeFailed = FALSE]
    IN SettleConnect(Emit(called, "error", ConstructorError), src, "rejected")

\* disconnect() without the eventSource test.
Disconnect_NoGuard(s) ==
    Emit([s EXCEPT !.sources = @ \ {s.eventSource},
                   !.eventSource = 0,
                   !.connected = FALSE],
         "disconnect", Undef)

\* disconnect() (lines 80-88)
Disconnect(s) ==
    IF s.eventSource # 0
    THEN Emit([s EXCEPT !.sources = @ \ {s.eventSource},
                        !.eventSource = 0,
                        !.connected = FALSE],
              "disconnect", Undef)
    ELSE s

\* initialize() up to its await (lines 90-98), called for connect() src.
Initialize(s, src) == SendRequest(s, "initialize", SomeParams, "initialize", src)

\* The 'endpoint' listener of EventSource src (lines 43-56).
OnEndpoint(s, src) == Initialize([s EXCEPT !.messageEndpoint = src], src)

\* The onerror handler of EventSource src (lines 67-71).  The handshake of
\* the latest connect() is noted as failed when the error reaches it before
\* the session is connected.
OnError(s, src) ==
    LET noted == [s EXCEPT !.handshakeFailed =
                        @ \/ (src = s.eventSource /\ ~s.connected
                              /\ s.connectPromise[src] = "pending")]
    IN SettleConnect(Emit(noted, "error", ErrorEventOf(src)), src, "rejected")

\* initialize() after its await, on a resolved request (lines 100-109): the
\* notification is handed to sendNotification without await, connected is
\* set, and the .then of line 48 is queued with the result.
InitializeResume(s, req) ==
    LET notified == SendNotification(s, "notifications/initialized")
    IN [notified EXCEPT !.connected = TRUE,
                        !.microtasks = Append(@, [kind |-> "then", req |-> req])]

\* initialize() after its await, on a rejected request: the exception
\* leaves initialize and the .catch of line 52 is queued.
InitializeFails(s, req) ==
    [s EXCEPT !.microtasks = Append(@, [kind |-> "catch", req |-> req])]

\* The .then callback of connect (lines 48-51).
ConnectThen(s, req) ==
    LET r == s.requests[req]
        stored == [s EXCEPT !.serverCapabilities = Capabilities(r.value)]
    IN SettleConnect(Emit(stored, "connect", r.value), r.src, "resolved")

\* The .catch callback of connect (lines 52-55).
ConnectCatch(s, req) ==
    LET r == s.requests[req]
    IN SettleConnect(Emit(s, "error", r.value), r.src, "rejected")

\* listTools()/callTool() after the await: the call returns the result
\* (listTools its tools member) or throws the rejection.
ToolReturn(s, req) ==
    [s EXCEPT !.requests[req].call = s.requests[req].promise,
              !.requests[req].callValue = s.requests[req].value]

\* listTools() without the connected test.
ListTools_NoGuard(s) ==
    SendRequest([s EXCEPT !.threw = "none"], "tools/list", EmptyObject, "listTools", 0)

\* listTools() (lines 112-122)
ListTools(s) ==
    IF ~s.connected
    THEN [s EXCEPT !.threw = "NotConnected"]
    ELSE SendRequest([s EXCEPT !.threw = "none"], "tools/list", EmptyObject, "listTools", 0)

\* callTool attaching _meta whatever withProgress is.
CallTool_AlwaysMeta(s, name, args, withProgress, now) ==
    IF ~s.connected
    THEN [s EXCEPT !.threw = "NotConnected"]
    ELSE SendRequest([s EXCEPT !.threw = "none"], "tools/call",
                     ToolParams(name, args, TRUE, now), "callTool", 0)

\* callTool(name, args, withProgress) (lines 124-147), called when Date.now()
\* is `now`.
CallTool(s, name, args, withProgress, now) ==
    IF ~s.connected
    THEN [s EXCEPT !.threw = "NotConnected"]
    ELSE SendRequest([s EXCEPT !.threw = "none"], "tools/call",
                     ToolParams(name, args, withProgress, now), "callTool", 0)

\* One promise reaction: the first of the queue.
RunReaction(s) ==
    LET t == Head(s.microtasks)
        rest == [s EXCEPT !.microtasks = Tail(@)]
        r == s.requests[t.req]
    IN CASE t.kind = "then" -> ConnectThen(rest, t.req)
         [] t.kind = "catch" -> ConnectCatch(rest, t.req)
         [] t.kind = "await" /\ r.owner = "initialize" /\ r.promise = "resolved" ->
                InitializeResume(rest, t.req)
         [] t.kind = "await" /\ r.owner = "initialize" /\ r.promise # "resolved" ->
                InitializeFails(rest, t.req)
         [] OTHER -> ToolReturn(rest, t.req)

\* The fetch of outbox position i settles (lines 195-211): with response.ok,
\* or failing, and then the .catch of line 174 runs if the send was a
\* request's.
FetchSettled(s, i, ok) ==
    LET done == [s EXCEPT !.inflight = @ \ {i}]
    IN IF ~ok /\ s.outbox[i].onReject # 0
       THEN OnSendRejected(done, s.outbox[i].onReject)
       ELSE done

(***************************************************************************)
(* The inputs the environment draws from.                                  *)
(***************************************************************************)
ServerError == Obj(-32000)

\* What Date.now() returns: the clock need not move between two calls.
Clock == 1..MaxClock

RequestIds == {Num(i) : i \in FirstRequestId..MaxRequests}

\* The responses a server sends during a session: a result or an error, for
\* an id the client used, for the same id as a string, or for an id it
\* never used.
SessionEnvelopes ==
    {Envelope(i, "", ServerResult, Undef, Undef) : i \in RequestIds \cup {Str(1), Num(MaxRequests + 1)}}
        \cup {Envelope(i, "", Undef, ServerError, Undef) : i \in RequestIds}

\* The routing log is kept by the dispatch specification only.
Unrouted(s) == [s EXCEPT !.trace = <<>>, !.lastMessage = <<>>]

\* How many times `event` was emitted with data of kind `kind`.
EmitCount(bag, event, kind) ==
    LET hits == {e \in BagToSet(bag) : e.event = event /\ e.data.k = kind}
        RECURSIVE Sum(_)
        Sum(es) == IF es = {} THEN 0
                   ELSE LET e == CHOOSE x \in es : TRUE
                        IN CopiesIn(e, bag) + Sum(es \ {e})
    IN Sum(hits)

(***************************************************************************)
(* Actions.                                                                *)
(***************************************************************************)
\* A task of the event loop starts only when no promise reaction is queued.
Idle == microtasks = <<>>

ConnectCall ==
    /\ srcCount < MaxConnects
    /\ Becomes(Connect(TheState))

ConnectThrowsCall ==
    /\ srcCount < MaxConnects
    /\ Becomes(ConnectThrows(TheState))

DisconnectCall == Becomes(Disconnect(TheState))

ListToolsCall ==
    /\ connected => nextRequestId <= MaxRequests
    /\ Becomes(ListTools(TheState))

CallToolCall ==
    /\ connected => nextRequestId <= MaxRequests
    /\ \E withProgress \in BOOLEAN, now \in Clock :
          Becomes(CallTool(TheState, "add", AddArgs, withProgress, now))

EndpointEvent ==
    /\ Idle
    /\ nextRequestId <= MaxRequests
    /\ \E src \in sources : Becomes(OnEndpoint(TheState, src))

ResponseEvent ==
    /\ Idle
    /\ sources # {}
    /\ \E m \in SessionEnvelopes : Becomes(Unrouted(OnMessage(TheState, <<m>>)))

ErrorEvent ==
    /\ Idle
    /\ EmitCount(events, "error", "errorevent") < MaxErrors
    /\ \E src \in sources : Becomes(OnError(TheState, src))

TimerFires ==
    /\ Idle
    /\ \E id \in timers : Becomes(OnTimeout(TheState, id))

FetchSettles ==
    /\ Idle
    /\ \E i \in inflight, ok \in BOOLEAN : Becomes(FetchSettled(TheState, i, ok))

Reaction ==
    /\ microtasks # <<>>
    /\ Becomes(RunReaction(TheState))

Next ==
    \/ ConnectCall
    \/ ConnectThrowsCall
    \/ DisconnectCall
    \/ ListToolsCall
    \/ CallToolCall
    \/ EndpointEvent
    \/ ResponseEvent
    \/ ErrorEvent
    \/ TimerFires
    \/ FetchSettles
    \/ Reaction

Spec == Init /\ [][Next]_vars

(***************************************************************************)
(* The dispatch specification: handleIncomingMessage as a function of the  *)
(* client state and the message.  It starts in a state the session reaches *)
(* (built with the operations above) and delivers 'message' events drawn   *)
(* from every shape of envelope and from batches of them.                  *)
(***************************************************************************)
RECURSIVE WithListeners(_)
WithListeners(n) ==
    IF n = 0 THEN Constructed
    ELSE On(WithListeners(n - 1), "rootsListRequest", n)

\* connect() was called; no endpoint event yet.
Connecting(n) == Connect(WithListeners(n))

\* The endpoint event arrived; the initialize request (id 1) is pending.
Initializing(n) == OnEndpoint(Connecting(n), 1)

\* The handshake completed and its two sends were accepted.
Ready(n) ==
    LET answered == OnMessage(Initializing(n),
                              <<Envelope(Num(FirstRequestId), "", ServerResult, Undef, Undef)>>)
        resumed == RunReaction(RunReaction(answered))
    IN Unrouted(FetchSettled(FetchSettled(resumed, 1, TRUE), 2, TRUE))

\* Ready, with k listTools() calls pending.
RECURSIVE Pending(_, _)
Pending(n, k) ==
    IF k = 0 THEN Ready(n) ELSE ListTools(Pending(n, k - 1))

PreparedStates ==
    {Connecting(n) : n \in 0..MaxListeners}
        \cup {Initializing(n) : n \in 0..MaxListeners}
        \cup {Pending(n, k) : n \in 0..MaxListeners, k \in 0..MaxPending}

DispatchIds == {Undef, Num(0), Str(1)} \cup {Num(i) : i \in FirstRequestId..(MaxPending + 1)}
ResponseEnvelopes ==
    {Envelope(i, "", r, e, Undef) :
        i \in DispatchIds, r \in {Undef, Num(0), ServerResult}, e \in {Undef, ServerError}}
RequestMethods == {"ping", "sampling/createMessage", "roots/list", "tools/unknown"}
RequestEnvelopes ==
    {Envelope(i, m, Undef, Undef, Undef) :
        i \in {Num(0), Num(1), Str(1)}, m \in RequestMethods}
NotificationEnvelopes ==
    {Envelope(Undef, m, Undef, Undef, p) :
        m \in {"notifications/progress", "notifications/tools/list_changed",
               "notifications/other"},
        p \in {Undef, SomeParams}}
Envelopes ==
    ResponseEnvelopes \cup RequestEnvelopes \cup NotificationEnvelopes
        \cup {NullEnvelope, PrimitiveEnvelope,
              Envelope(Num(1), "ping", ServerResult, Undef, Undef)}
BatchElements ==
    {NullEnvelope,
     Envelope(Undef, "", Undef, Undef, Undef),
     Envelope(Num(1), "", ServerResult, Undef, Undef),
     Envelope(Undef, "notifications/progress", Undef, Undef, Undef),
     Envelope(Undef, "notifications/progress", Undef, Undef, SomeParams),
     Envelope(Num(1), "ping", Undef, Undef, Undef)}
Batches == UNION {[1..n -> BatchElements] : n \in 0..MaxBatch}

Delivered(s) == [s EXCEPT !.inbound = @ + 1]

InitDispatch == \E s \in PreparedStates : Holds(s)

MessageEvent ==
    /\ Idle
    /\ inbound < MaxInbound
    /\ sources # {}
    /\ \E m \in Envelopes : Becomes(Delivered(OnMessage(TheState, <<m>>)))

BatchEvent ==
    /\ Idle
    /\ inbound < MaxInbound
    /\ sources # {}
    /\ \E b \in Batches : Becomes(Delivered(OnMessage(TheState, b)))

NextDispatch ==
    \/ MessageEvent
    \/ BatchEvent
    \/ TimerFires
    \/ Reaction

SpecDispatch == InitDispatch /\ [][NextDispatch]_vars

(***************************************************************************)
(* The tools specification: listTools() and callTool() on a session whose  *)
(* handshake is under way (the initialize request is pending), with the    *)
(* responses, timeouts and send outcomes of their requests.                *)
(***************************************************************************)
ToolNames == {"add"}
ToolArgs == {EmptyObject, AddArgs}
ToolResult == Obj(5)
ToolIds == {Num(i) : i \in FirstRequestId..(FirstRequestId + MaxCalls)}

\* The responses of the server: one of two results, or an error.
ToolsEnvelopes ==
    {Envelope(i, "", r, Undef, Undef) : i \in ToolIds, r \in {ServerResult, ToolResult}}
        \cup {Envelope(i, "", Undef, ServerError, Undef) : i \in ToolIds}

InitTools == Holds(Initializing(0))

ListToolsStep ==
    /\ nextRequestId <= FirstRequestId + MaxCalls
    /\ Becomes(ListTools(TheState))

CallToolStep(name, args, withProgress, now) ==
    /\ nextRequestId <= FirstRequestId + MaxCalls
    /\ Becomes(CallTool(TheState, name, args, withProgress, now))

ToolsCallTool ==
    \E name \in ToolNames, args \in ToolArgs, withProgress \in BOOLEAN, now \in Clock :
        CallToolStep(name, args, withProgress, now)

ResponseStep(m) ==
    /\ Idle
    /\ sources # {}
    /\ Becomes(Unrouted(OnMessage(TheState, <<m>>)))

ToolsResponse == \E m \in ToolsEnvelopes : ResponseStep(m)

NextTools ==
    \/ ListToolsStep
    \/ ToolsCallTool
    \/ ToolsResponse
    \/ TimerFires
    \/ FetchSettles
    \/ Reaction

SpecTools == InitTools /\ [][NextTools]_vars

(***************************************************************************)
(* The completion specification: the requests of a session that are        *)
(* registered (the initialize request, or listTools requests on a ready    *)
(* session) and what can complete them: a response, the timeout, the       *)
(* failure of the send.  The event loop runs every queued promise          *)
(* reaction, and an armed timer that is not cleared fires.                 *)
(***************************************************************************)
InitCompletion ==
    \E s \in {Initializing(0)} \cup {Pending(0, k) : k \in 1..MaxPending} : Holds(s)

NextCompletion ==
    \/ ToolsResponse
    \/ TimerFires
    \/ FetchSettles
    \/ Reaction

FairSpecCompletion ==
    InitCompletion /\ [][NextCompletion]_vars /\ WF_vars(Reaction) /\ WF_vars(TimerFires)

(***************************************************************************)
(* The emitter specification: on() and emit() called in any order on a     *)
(* fresh client, with several callbacks per name and the same callback     *)
(* registered more than once.                                              *)
(***************************************************************************)
EmitterNames == {"progress", "message"}
Callbacks == 1..MaxCallbacks

\* The number of on() calls made so far.
RECURSIVE Registrations(_, _)
Registrations(listeners, names) ==
    IF names = {} THEN 0
    ELSE LET e == CHOOSE x \in names : TRUE
         IN Len(Invoked(listeners, e)) + Registrations(listeners, names \ {e})

OnStep(event, callback) ==
    /\ Registrations(eventListeners, EmitterNames) < MaxRegistrations
    /\ Becomes(On(TheState, event, callback))

OnCall == \E event \in EmitterNames, callback \in Callbacks : OnStep(event, callback)

EmitStep(event, data) ==
    /\ BagCardinality(events) < MaxEmits
    /\ Becomes(Emit(TheState, event, data))

EmitCall == \E event \in EmitterNames, data \in {Undef, SomeParams} : EmitStep(event, data)

NextEmitter ==
    \/ OnCall
    \/ EmitCall

SpecEmitter == Init /\ [][NextEmitter]_vars

(***************************************************************************)
(* Properties.                                                             *)
(***************************************************************************)
\* The settle calls of request id that a response or a timeout caused.
PeerSettles(id) ==
    {i \in 1..Len(requests[id].settles) : requests[id].settles[i].by # "send"}

\* C1: whatever the interleaving of responses and timeouts, the promise of
\* a request is resolved or rejected by at most one response or timeout,
\* and every resolve/reject of it was caused by a response carrying its own
\* id or by its own timer: none by the response or timer of another id.
C1_OwnCompletionAtMostOnce ==
    \A id \in DOMAIN requests :
        /\ Cardinality(PeerSettles(id)) <= 1
        /\ \A i \in 1..Len(requests[id].settles) :
              requests[id].settles[i].key = Num(id)

\* C1 witness: a request completed by its response while an older request
\* is still pending with its timer armed.
C1_Witness ==
    \E i, j \in DOMAIN requests :
        /\ j < i
        /\ requests[i].settles = <<[by |-> "response", key |-> Num(i)]>>
        /\ requests[i].promise = "resolved"
        /\ j \in DOMAIN messageHandlers
        /\ j \in timers

\* A step that delivers one 'message' event carrying the single envelope m.
DeliversOne == inbound' = inbound + 1 /\ Len(lastMessage') = 1

\* The envelope has the member (it is not absent).
Present(v) == v.k # "undefined"

\* C2: a response whose id has no entry in the correlation table (never
\* registered, already resolved, timed out) is discarded: no exception, no
\* callback (no resolve/reject call, no reaction queued), and the table,
\* the timers, every request, the connected flag, the outbox and the
\* emitted events are unchanged.
C2_UnknownResponseDiscarded ==
    [][(/\ DeliversOne
        /\ IsResponse(lastMessage'[1])
        /\ ~(lastMessage'[1].id.k = "number"
             /\ lastMessage'[1].id.n \in DOMAIN messageHandlers))
       => (/\ threw' = "none"
           /\ UNCHANGED <<messageHandlers, timers, requests, microtasks, connected,
                          outbox, inflight, events, eventSource, nextRequestId>>)]_vars

\* C2 witness: a response for an id whose timeout had fired was delivered,
\* and the request still has the timeout as its only settle call.
C2_Witness ==
    /\ Len(lastMessage) = 1
    /\ trace = <<"unknown">>
    /\ lastMessage[1].id.k = "number"
    /\ lastMessage[1].id.n \in DOMAIN requests
    /\ requests[lastMessage[1].id.n].settles =
          <<[by |-> "timeout", key |-> lastMessage[1].id]>>

\* C3: every element of a batch is dispatched, whatever the elements before
\* it are: the routing log of a 'message' event has one entry per element
\* of the message, none of them an exception that ended the batch early.
C3_EveryBatchElementDispatched ==
    Len(trace) = Len(lastMessage)

InitializedSends ==
    {i \in 1..Len(outbox) : outbox[i].msg.method = "notifications/initialized"}

\* C5: connected is true only once the send of the initialized notification
\* has completed: whenever connected holds, the fetch of some
\* notifications/initialized has settled.
C5_ConnectedAfterInitializedSent ==
    connected => \E i \in InitializedSends : i \notin inflight

\* C6: disconnect() with an event source closes it, clears eventSource and
\* connected and emits 'disconnect' once; disconnect() without one (so also
\* a second call right after the first) changes nothing and emits nothing.
C6_DisconnectIdempotent ==
    [][DisconnectCall
       => IF eventSource # 0
          THEN /\ eventSource' = 0
               /\ connected' = FALSE
               /\ sources' = sources \ {eventSource}
               /\ EmitCount(events', "disconnect", "undefined")
                     = EmitCount(events, "disconnect", "undefined") + 1
               /\ BagCardinality(events') = BagCardinality(events) + 1
               /\ threw' = threw
          ELSE UNCHANGED vars]_vars

\* C6 witness: disconnect() has run once on a connected session, and the
\* client is where a second call finds it.
C6_Witness ==
    /\ eventSource = 0
    /\ srcCount > 0
    /\ ~connected
    /\ serverCapabilities # Null
    /\ EmitCount(events, "disconnect", "undefined") = 1

\* C7: after a transport error during the handshake of the latest
\* connect(), the session does not become connected unless connect() is
\* called again.
C7_FailedHandshakeStaysFailed ==
    handshakeFailed => ~connected

\* C8: an envelope whose id and result or error members are present, and
\* whose id is pending, completes the pending call and removes its entry:
\* rejected with the error's code when error is present, else resolved with
\* the result.
C8_ResponseClassifiedByPresence ==
    [][(/\ DeliversOne
        /\ lastMessage'[1].shape = "object"
        /\ Present(lastMessage'[1].id)
        /\ Present(lastMessage'[1].result) \/ Present(lastMessage'[1].error)
        /\ lastMessage'[1].id.k = "number"
        /\ lastMessage'[1].id.n \in DOMAIN messageHandlers)
       => LET m == lastMessage'[1]
              id == m.id.n
          IN /\ id \notin DOMAIN messageHandlers'
             /\ requests'[id].promise =
                   (IF Present(m.error) THEN "rejected" ELSE "resolved")
             /\ requests'[id].value =
                   (IF Present(m.error) THEN ProtocolError(m.error) ELSE m.result)]_vars

\* A step that delivers one server request: method and id present, neither
\* result nor error.
DeliversRequest(method) ==
    /\ DeliversOne
    /\ lastMessage'[1].shape = "object"
    /\ lastMessage'[1].method = method
    /\ Present(lastMessage'[1].id)
    /\ ~Present(lastMessage'[1].result)
    /\ ~Present(lastMessage'[1].error)

\* The outbox after one more reply, whose rejection nobody handles.
WithReply(box, reply) == Append(box, [msg |-> reply, onReject |-> 0])

\* C9: a ping request with any id gets exactly one reply, {id: the same id,
\* result: {}}, and no event is emitted.
C9_PingAnswered ==
    [][DeliversRequest("ping")
       => /\ outbox' = WithReply(outbox,
                                 Envelope(lastMessage'[1].id, "", EmptyObject, Undef, Undef))
          /\ events' = events]_vars

\* C10: a roots/list request emits rootsListRequest once and gets exactly
\* one reply with its id and an empty roots list; a sampling/createMessage
\* request emits samplingRequest once and gets no reply.
C10_RootsAnsweredSamplingNot ==
    [][/\ DeliversRequest("roots/list")
          => /\ outbox' = WithReply(outbox,
                                    Envelope(lastMessage'[1].id, "", EmptyRoots, Undef, Undef))
             /\ EmitCount(events', "rootsListRequest", lastMessage'[1].id.k)
                   = EmitCount(events, "rootsListRequest", lastMessage'[1].id.k) + 1
             /\ BagCardinality(events') = BagCardinality(events) + 1
       /\ DeliversRequest("sampling/createMessage")
          => /\ outbox' = outbox
             /\ EmitCount(events', "samplingRequest", lastMessage'[1].id.k)
                   = EmitCount(events, "samplingRequest", lastMessage'[1].id.k) + 1
             /\ BagCardinality(events') = BagCardinality(events) + 1]_vars

\* C11: a message with an id and a method other than ping,
\* sampling/createMessage and roots/list gets exactly one reply, the error
\* -32601 with the request's own id; no event is emitted for it and no
\* pending request is touched (it is routed neither as a notification nor
\* as a response).
C11_UnknownMethodRefused ==
    [][(/\ DeliversOne
        /\ lastMessage'[1].shape = "object"
        /\ lastMessage'[1].method \notin {"", "ping", "sampling/createMessage", "roots/list"}
        /\ Present(lastMessage'[1].id))
       => /\ outbox' = WithReply(outbox,
                                 Envelope(lastMessage'[1].id, "", Undef,
                                          Obj(MethodNotFound), Undef))
          /\ trace' = <<"request">>
          /\ UNCHANGED <<events, messageHandlers, timers, requests, microtasks>>]_vars

\* A step in which the pending tool request id fails by its timeout or by
\* an error response.
FailsHere(id) ==
    /\ requests[id].owner \in {"listTools", "callTool"}
    /\ requests[id].promise = "pending"
    /\ requests'[id].promise = "rejected"
    /\ requests'[id].value.k \in {"timeout", "rpcerror"}

\* C12: the step in which a pending listTools/callTool request times out
\* or gets an error response removes that request's entry and timer and
\* nothing else: connected and the event source are unchanged, nothing is
\* emitted, and every other request (its entry, its timer, its promise, its
\* call) is as before.
C12_RequestFailureContained ==
    [][\A id \in DOMAIN requests :
          FailsHere(id)
          => /\ connected' = connected
             /\ UNCHANGED <<eventSource, sources, events, outbox, nextRequestId>>
             /\ messageHandlers' = MapDelete(messageHandlers, id)
             /\ timers' = timers \ {id}
             /\ \A j \in DOMAIN requests \ {id} : requests'[j] = requests[j]]_vars

\* C12 witness: one listTools request was rejected by an error response
\* while another is still pending with its entry and its timer, connected.
C12_Witness ==
    \E i, j \in DOMAIN requests :
        /\ i # j
        /\ requests[i].owner = "listTools"
        /\ requests[i].promise = "rejected"
        /\ requests[i].value.k = "rpcerror"
        /\ requests[j].owner = "listTools"
        /\ requests[j].promise = "pending"
        /\ j \in DOMAIN messageHandlers
        /\ j \in timers
        /\ connected

\* The outbox positions of the requests sendRequest sent.
RequestSends == {i \in 1..Len(outbox) : outbox[i].onReject # 0}

\* The outbox positions of the notifications sendNotification sent.
NotificationSends ==
    {i \in 1..Len(outbox) : outbox[i].onReject = 0 /\ outbox[i].msg.method # ""}

\* C13: the ids of the requests sent are numbers that strictly increase in
\* the order of the sendRequest calls (so no two calls share an id, whatever
\* their progress tokens); every pending id was assigned before and is
\* below the next id to assign; a notification carries no id, and the
\* counter has advanced by exactly the number of requests sent.
C13_RequestIdsNeverReused ==
    /\ \A i \in RequestSends :
          /\ outbox[i].msg.id.k = "number"
          /\ outbox[i].msg.id.n = outbox[i].onReject
          /\ outbox[i].msg.id.n < nextRequestId
    /\ \A i, j \in RequestSends : i < j => outbox[i].msg.id.n < outbox[j].msg.id.n
    /\ \A id \in DOMAIN messageHandlers : id >= FirstRequestId /\ id < nextRequestId
    /\ \A i \in NotificationSends : outbox[i].msg.id = Undef
    /\ Cardinality(RequestSends) = nextRequestId - FirstRequestId

\* C13 witness: two callTool requests with the same progress token are
\* pending under different ids, after a notification was sent.
C13_Witness ==
    /\ NotificationSends # {}
    /\ \E i, j \in RequestSends :
          /\ i < j
          /\ outbox[i].msg.method = "tools/call"
          /\ outbox[j].msg.method = "tools/call"
          /\ outbox[i].msg.params.progressToken # Undef
          /\ outbox[i].msg.params.progressToken = outbox[j].msg.params.progressToken
          /\ outbox[i].msg.id # outbox[j].msg.id
          /\ {outbox[i].msg.id.n, outbox[j].msg.id.n} \subseteq DOMAIN messageHandlers

\* The tools/call request with the next id, as handed to fetch.
ToolsCallRequest(name, args, token) ==
    [msg |-> Envelope(Num(nextRequestId), "tools/call", Undef, Undef,
                      [k |-> "object", name |-> name, arguments |-> args,
                       progressToken |-> token]),
     onReject |-> nextRequestId]

\* C14: callTool(name, args, false) on a connected session sends exactly
\* one request, tools/call with params {name, arguments: args} and no
\* _meta; with withProgress true the params also carry the progress token.
\* A response with the id of a pending callTool request and a result
\* resolves its promise with that result, and the call returns exactly what
\* its promise holds.
C14_CallToolRoundTrip ==
    [][/\ \A name \in ToolNames, args \in ToolArgs, now \in Clock :
            /\ (connected /\ nextRequestId' # nextRequestId
                  /\ CallToolStep(name, args, FALSE, now))
                  => outbox' = Append(outbox, ToolsCallRequest(name, args, Undef))
            /\ (connected /\ nextRequestId' # nextRequestId
                  /\ CallToolStep(name, args, TRUE, now))
                  => outbox' = Append(outbox, ToolsCallRequest(name, args, Str(now)))
       /\ \A m \in ToolsEnvelopes :
            (/\ Present(m.result)
             /\ m.id.n \in DOMAIN messageHandlers
             /\ requests[m.id.n].owner = "callTool"
             /\ ResponseStep(m))
            => /\ requests'[m.id.n].promise = "resolved"
               /\ requests'[m.id.n].value = m.result
       /\ \A req \in DOMAIN requests :
            (/\ requests[req].owner = "callTool"
             /\ requests[req].call = "pending"
             /\ requests'[req].call # "pending")
            => /\ requests'[req].call = requests[req].promise
               /\ requests'[req].callValue = requests[req].value]_vars

\* C14 witness: callTool("add", {a: 33, b: 55}, false) sent one request
\* without _meta and returned the result of its response.
C14_Witness ==
    \E i \in RequestSends :
        /\ outbox[i].msg.method = "tools/call"
        /\ outbox[i].msg.params.name = "add"
        /\ outbox[i].msg.params.arguments = AddArgs
        /\ outbox[i].msg.params.progressToken = Undef
        /\ requests[outbox[i].onReject].settles =
              <<[by |-> "response", key |-> outbox[i].msg.id]>>
        /\ requests[outbox[i].onReject].call = "resolved"
        /\ requests[outbox[i].onReject].callValue = ToolResult

\* Every registered request eventually leaves the correlation table.
EveryRequestCompletes ==
    \A id \in FirstRequestId..(FirstRequestId + MaxPending) :
        (id \in DOMAIN messageHandlers) ~> (id \notin DOMAIN messageHandlers)

\* The request left the table by one of `causes`: the first resolve/reject
\* call of its promise was made by one of them.
CompletedBy(id, causes) ==
    /\ requests[id].settles # <<>>
    /\ requests[id].settles[1].by \in causes
    /\ requests[id].promise # "pending"

\* C15 as stated: every registered request eventually leaves the table, and
\* a request that left it was completed by a matching response or by its
\* timeout, nothing else.
C15_ResponseOrTimeoutOnly ==
    /\ EveryRequestCompletes
    /\ [](\A id \in DOMAIN requests :
            id \notin DOMAIN messageHandlers => CompletedBy(id, {"response", "timeout"}))

\* C15 amended: every registered request eventually leaves the table; while
\* it is in the table its promise is pending and nothing has completed it;
\* once it left, its promise was settled by the first of a matching
\* response, its timeout or the failure of its send, and at most one
\* response or timeout ever reached it.
C15_ResponseTimeoutOrSendFailure ==
    /\ EveryRequestCompletes
    /\ [](\A id \in DOMAIN requests :
            /\ id \in DOMAIN messageHandlers
                  => requests[id].promise = "pending" /\ requests[id].settles = <<>>
            /\ id \notin DOMAIN messageHandlers
                  => /\ CompletedBy(id, {"response", "timeout", "send"})
                     /\ Cardinality(PeerSettles(id)) <= 1
                     /\ requests[id].settles[1].key = Num(id)
                     /\ requests[id].settles[1].by = "timeout"
                           => requests[id].value = TimeoutError
                     /\ requests[id].settles[1].by = "send"
                           => requests[id].value = SendError)

\* C15 witness: one tool request was completed by its timeout, another by
\* the failure of its send, and the initialize request by its response.
C15_Witness ==
    \E i, j, h \in DOMAIN requests :
        /\ requests[i].settles = <<[by |-> "timeout", key |-> Num(i)]>>
        /\ requests[j].settles = <<[by |-> "send", key |-> Num(j)]>>
        /\ requests[h].settles[1].by = "response"
        /\ DOMAIN messageHandlers = {}

\* C16: whenever connected is true the capabilities of the initialize
\* result are stored: serverCapabilities no longer holds the null the
\* constructor gave it.
C16_ConnectedMeansCapabilitiesStored ==
    connected => serverCapabilities # Null

\* The callbacks registered for `event`, oldest first: none when on() was
\* never called for it.
Registered(event) ==
    IF event \in DOMAIN eventListeners THEN eventListeners[event] ELSE <<>>

\* C17: on(event, callback) puts the callback after the ones registered for
\* that name before and touches no other name; emit(event, data) invokes
\* the callbacks registered for that name, each registration once, oldest
\* first, within the emit call, and nothing else; with no callback
\* registered it invokes nothing and throws nothing.
C17_EmitInRegistrationOrder ==
    [][/\ \A event \in EmitterNames, callback \in Callbacks :
            OnStep(event, callback)
            => /\ Len(Registered(event)') = Len(Registered(event)) + 1
               /\ \A i \in 1..Len(Registered(event)) :
                     Registered(event)'[i] = Registered(event)[i]
               /\ Registered(event)'[Len(Registered(event)) + 1] = callback
               /\ \A other \in EmitterNames \ {event} :
                     Registered(other)' = Registered(other)
               /\ events' = events
       /\ \A event \in EmitterNames, data \in {Undef, SomeParams} :
            EmitStep(event, data)
            => \E call \in BagToSet(events') :
                  /\ events' = events (+) SetToBag({call})
                  /\ call.event = event
                  /\ call.data = data
                  /\ Len(call.called) = Len(Registered(event))
                  /\ \A i \in 1..Len(call.called) : call.called[i] = Registered(event)[i]
                  /\ UNCHANGED <<eventListeners, threw>>]_vars

\* C17 witness: three callbacks were registered on one name, one of them
\* twice, and an emit invoked them in that order; an emit of the other
\* name, which has no callback, invoked nothing.
C17_Witness ==
    /\ Registered("progress") = <<2, 1, 2>>
    /\ Registered("message") = <<>>
    /\ \E call \in BagToSet(events) : call.event = "progress" /\ call.called = <<2, 1, 2>>
    /\ \E call \in BagToSet(events) : call.event = "message" /\ call.called = <<>>
    /\ threw = "none"

\* The step runs a continuation of a handshake whose event source is open:
\* no disconnect() has closed it.
OfOpenHandshake ==
    /\ microtasks # <<>>
    /\ requests[Head(microtasks).req].src \in sources

\* C18: connected becomes true, and a connect event is emitted, only by a
\* continuation of a handshake whose event source disconnect() has not
\* closed: after disconnect() no continuation of the handshake it
\* interrupted sets connected or emits connect.
C18_DisconnectStopsHandshake ==
    [][/\ (~connected /\ connected') => OfOpenHandshake
       /\ EmitCount(events', "connect", "object") > EmitCount(events, "connect", "object")
             => OfOpenHandshake]_vars

\* A step in which the send of request id fails: the .catch of sendRequest
\* runs for it.
SendFailsHere(id) ==
    requests'[id].settles = Append(requests[id].settles, [by |-> "send", key |-> Num(id)])

\* The send of request id has failed.
SendFailed(id) ==
    \E i \in 1..Len(requests[id].settles) : requests[id].settles[i].by = "send"

\* A timer is armed for an id exactly when the id has a table entry.
TimerIffEntry == timers = DOMAIN messageHandlers

\* Once the send of a request has failed, nothing changes the request
\* again (but its awaiting call returning) and it has no entry and no timer.
NoEffectAfterSendFailure ==
    \A id \in DOMAIN requests :
        SendFailed(id)
        => /\ id \notin DOMAIN messageHandlers' /\ id \notin timers'
           /\ requests'[id].promise = requests[id].promise
           /\ requests'[id].value = requests[id].value
           /\ requests'[id].call # requests[id].call
                 => (requests'[id].call = requests[id].promise
                     /\ requests'[id].callValue = requests[id].value)

\* C19 as stated: whenever the send of a request fails, its entry is
\* removed, its timer is cancelled and its promise is rejected with the
\* send error; afterwards nothing has an effect on it; a timer is armed
\* exactly for the ids in the table.
C19_SendFailureFailsTheCall ==
    /\ []TimerIffEntry
    /\ [][/\ \A id \in DOMAIN requests :
               SendFailsHere(id)
               => /\ id \notin DOMAIN messageHandlers' /\ id \notin timers'
                  /\ requests'[id].promise = "rejected"
                  /\ requests'[id].value = SendError
          /\ NoEffectAfterSendFailure]_vars

\* C19 amended: when the send of a request fails while the request is
\* pending, its entry is removed, its timer is cancelled and its promise is
\* rejected with the send error; when the request was already completed by
\* a response or its timeout, the failure changes nothing of its outcome.
\* Afterwards nothing has an effect on it, and a timer is armed exactly for
\* the ids in the table.
C19_SendFailureWhilePending ==
    /\ []TimerIffEntry
    /\ [][/\ \A id \in DOMAIN requests :
               SendFailsHere(id)
               => /\ id \notin DOMAIN messageHandlers' /\ id \notin timers'
                  /\ requests[id].promise = "pending"
                        => (requests'[id].promise = "rejected"
                            /\ requests'[id].value = SendError)
                  /\ requests[id].promise # "pending"
                        => (requests'[id].promise = requests[id].promise
                            /\ requests'[id].value = requests[id].value)
          /\ NoEffectAfterSendFailure]_vars

\* C19 witness: the send of one listTools request failed while it was
\* pending and the call failed with the send error; the send of another
\* failed after its response had resolved it, and its call returned the
\* result.
C19_Witness ==
    \E i, j \in DOMAIN requests :
        /\ requests[i].settles = <<[by |-> "send", key |-> Num(i)]>>
        /\ requests[i].call = "rejected"
        /\ requests[i].callValue = SendError
        /\ requests[j].settles =
              <<[by |-> "response", key |-> Num(j)], [by |-> "send", key |-> Num(j)]>>
        /\ requests[j].call = "resolved"
        /\ timers = {}
        /\ DOMAIN messageHandlers = {}

\* The initialize requests sent for the connect() call src.
InitializeRequests(src) ==
    {id \in DOMAIN requests : requests[id].method = "initialize" /\ requests[id].src = src}

\* C20: for each connect() call at most one initialize request is sent,
\* whatever events its stream delivers; so over all connect() calls made,
\* no more notifications/initialized are sent and no more connect events
\* are emitted than there were calls.
C20_HandshakeOncePerConnect ==
    /\ \A src \in 1..srcCount : Cardinality(InitializeRequests(src)) <= 1
    /\ Cardinality(InitializedSends) <= srcCount
    /\ EmitCount(events, "connect", "object") <= srcCount

====
